---- MODULE Spec2Model ----
(***************************************************************************)
(* Model of CSVConnector (src/connector.py): one pandas DataFrame kept in  *)
(* memory (df) that mirrors one CSV file (csv).  Every public method is    *)
(* an operator from the state before the call to the state after it and    *)
(* the exception it raises; every action applies one method to inputs      *)
(* drawn from small sets.                                                  *)
(*                                                                         *)
(* pandas is modelled as it behaves up to version 2: a cell takes a value  *)
(* of any type (the column is upcast), DataFrame.drop and .loc go by       *)
(* label, and .loc with an absent label enlarges the frame.                *)
(*                                                                         *)
(* DataFrame: columns (sequence of names), index (sequence of row labels)  *)
(* and rows (sequence of mappings column name -> value), index and rows    *)
(* of the same length.  A value is a number, a string or NaN; its text is  *)
(* what to_csv prints for it.  read_csv infers the type of a column from   *)
(* the text of all its cells.                                              *)
(***************************************************************************)
EXTENDS Integers, Sequences, FiniteSets, TLC

VARIABLES
  df,           \* self.__df, the DataFrame held in memory
  csv,          \* the file at self.__csv
  constructed,  \* a connector has been built
  call,         \* the call in progress or just completed, with its arguments
  exc,          \* what that call raised ("none": it returned)
  old,          \* df and csv as they were when that call was entered
  ret,          \* the DataFrame that call handed to the caller
  schema,       \* the columns the table had when the connector was built
  track,        \* whether this behaviour keeps the history variable applied
  applied       \* history: the table loaded at construction with the calls
                \* that returned, and only those, applied to it one by one

vars == <<df, csv, constructed, call, exc, old, ret, schema, track, applied>>

(* ---------------------------- bounds ---------------------------------- *)

MaxRows == 3

MaxDeleteArgs == 2

(* ---------------------------- values ---------------------------------- *)

Num1 == [ty |-> "num", tx |-> "1"]

StrX == [ty |-> "str", tx |-> "x"]

NaN == [ty |-> "nan", tx |-> ""]

\* The values a caller passes for each key.
InputValues(key) == IF key = "a" THEN {Num1, StrX} ELSE {StrX}

Keys == {"a", "b", "c"}

InitialKeys == <<"a", "b">>

\* The lists a caller passes as initial_keys: none, the usual one, another.
InitialKeyLists == {<<>>, InitialKeys, <<"c">>}

\* The row labels a caller passes: the labels a table can carry and one below.
RowLabels == -1 .. MaxRows - 1

\* An exception whose message names no index.
NoIdx == <<>>

Range(s) == {s[i] : i \in 1 .. Len(s)}

Numerals == {"0", "1", "2", "3", "4", "5", "6", "7", "8", "9"}

(* ------------------------- the CSV file ------------------------------- *)

NoFile == [exists |-> FALSE, header |-> <<>>, lines |-> <<>>]

\* DataFrame.to_csv(path, mode="w", index=False): the header line, then one
\* line per row in row order, the cells in column order, no index column.
to_csv(d) ==
  [exists |-> TRUE,
   header |-> d.columns,
   lines  |-> [r \in 1 .. Len(d.rows) |->
                 [j \in 1 .. Len(d.columns) |-> d.rows[r][d.columns[j]].tx]]]

\* Type inference of pd.read_csv for one column: numeric when every
\* non-empty cell is a numeral, otherwise strings.
IsNumericColumn(f, j) ==
  \A r \in 1 .. Len(f.lines) : f.lines[r][j] = "" \/ f.lines[r][j] \in Numerals

ParseCell(t, numeric) ==
  IF t = "" THEN NaN
  ELSE IF numeric THEN [ty |-> "num", tx |-> t]
  ELSE [ty |-> "str", tx |-> t]

ColumnPos(header, c) == CHOOSE j \in 1 .. Len(header) : header[j] = c

\* pd.read_csv(path): first line = column names, a fresh RangeIndex.
read_csv(f) ==
  [columns |-> f.header,
   index   |-> [r \in 1 .. Len(f.lines) |-> r - 1],
   rows    |-> [r \in 1 .. Len(f.lines) |->
                 [c \in Range(f.header) |->
                    ParseCell(f.lines[r][ColumnPos(f.header, c)],
                              IsNumericColumn(f, ColumnPos(f.header, c)))]]]

\* pd.DataFrame([], columns=initial_keys)
EmptyFrame(keys) == [columns |-> keys, index |-> <<>>, rows |-> <<>>]

(* ----------------------- DataFrame primitives ------------------------- *)

\* reset_index without inplace=True: the frame keeps its labels.
reset_index_not_inplace(d) == d

\* DataFrame.reset_index(drop=True): labels become 0 .. n-1.
reset_index(d) ==
  [d EXCEPT !.index = [r \in 1 .. Len(d.index) |-> r - 1]]

RemoveAt(s, p) == [r \in 1 .. Len(s) - 1 |-> IF r < p THEN s[r] ELSE s[r + 1]]

LabelPos(d, idx) == CHOOSE p \in 1 .. Len(d.index) : d.index[p] = idx

\* drop that takes idx for a position: the row at position idx of the
\* frame as it is now is removed.
drop_by_position(d, idx) ==
  IF idx + 1 \in 1 .. Len(d.rows)
  THEN [d EXCEPT !.index = [r \in 1 .. Len(d.index) - 1 |->
                              IF r < idx + 1 THEN d.index[r] ELSE d.index[r + 1]],
                 !.rows  = [r \in 1 .. Len(d.rows) - 1 |->
                              IF r < idx + 1 THEN d.rows[r] ELSE d.rows[r + 1]]]
  ELSE d

\* DataFrame.drop(idx) for a label that is present: the row carrying the
\* label is removed, the other rows keep their labels.
drop(d, idx) ==
  LET p == LabelPos(d, idx)
  IN  [d EXCEPT !.index = RemoveAt(d.index, p), !.rows = RemoveAt(d.rows, p)]

\* pd.concat without ignore_index: the new row keeps its own label 0.
concat_keep_index(d, kv) ==
  [columns |-> d.columns,
   index   |-> Append(d.index, 0),
   rows    |-> Append(d.rows, [c \in Range(d.columns) |-> kv[c]])]

\* pd.concat([df, new_row], ignore_index=True): the columns of df first and
\* in their order, a cell for which new_row has no key is NaN, the labels
\* are renumbered.
concat(d, kv) ==
  LET extra == CHOOSE s \in [1 .. Cardinality(DOMAIN kv \ Range(d.columns)) -> DOMAIN kv \ Range(d.columns)] :
                    Range(s) = DOMAIN kv \ Range(d.columns)
      cols  == d.columns \o extra
      fill(row) == [c \in Range(cols) |-> IF c \in DOMAIN row THEN row[c] ELSE NaN]
  IN  [columns |-> cols,
       index   |-> [r \in 1 .. Len(d.rows) + 1 |-> r - 1],
       rows    |-> [r \in 1 .. Len(d.rows) + 1 |->
                      IF r <= Len(d.rows) THEN fill(d.rows[r]) ELSE fill(kv)]]

\* df.iloc in place of df.loc: the row is found by position, not by label.
loc_set_by_position(d, row_index, key, value) ==
  IF row_index + 1 \in 1 .. Len(d.rows)
  THEN [d EXCEPT !.rows[row_index + 1][key] = value]
  ELSE d

\* df.loc[row_index, key] = value.  A present label: the cell is replaced.
\* An absent label: setting with enlargement, a row with that label is
\* appended, NaN in its other cells.
loc_set(d, row_index, key, value) ==
  IF row_index \in Range(d.index)
  THEN [d EXCEPT !.rows[LabelPos(d, row_index)][key] = value]
  ELSE [d EXCEPT !.index = Append(d.index, row_index),
                 !.rows  = Append(d.rows,
                             [c \in Range(d.columns) |->
                                IF c = key THEN value ELSE NaN])]

Min(S) == CHOOSE x \in S : \A y \in S : x <= y

Max(S) == CHOOSE x \in S : \A y \in S : x >= y

(* ------------------------- the methods -------------------------------- *)

Result(d, f, e, i) == [df |-> d, csv |-> f, exc |-> e, idx |-> i]

\* DataFrame.copy(): a frame of its own, not shared with self.__df.
copy(d) == [frame |-> d, shared |-> FALSE]

\* read that hands out self.__df itself.
read_no_copy(d) == [frame |-> d, shared |-> TRUE]

\* CSVConnector.read
read(d) == copy(d)

NoRet == copy([columns |-> <<>>, index |-> <<>>, rows |-> <<>>])

\* return self.read() at the end of register, delete and update.
Returns(r) == IF r.exc = "none" THEN read(r.df) ELSE NoRet

\* CSVConnector.__write_csv
write_csv(d) == to_csv(d)

\* __init__ without the os.path.exists test: initial_keys, when given, are
\* written over whatever is at the path.
init_overwrite(f, initial_keys) ==
  IF initial_keys # <<>>
  THEN Result(read_csv(to_csv(EmptyFrame(initial_keys))),
              to_csv(EmptyFrame(initial_keys)), "none", NoIdx)
  ELSE IF ~f.exists
  THEN Result(EmptyFrame(<<>>), f, "FileNotFoundError", NoIdx)
  ELSE Result(read_csv(f), f, "none", NoIdx)

\* CSVConnector.__init__
init(f, initial_keys) ==
  IF ~f.exists
  THEN IF initial_keys = <<>>
       THEN Result(EmptyFrame(<<>>), f, "FileNotFoundError", NoIdx)
       ELSE Result(read_csv(to_csv(EmptyFrame(initial_keys))),
                   to_csv(EmptyFrame(initial_keys)), "none", NoIdx)
  ELSE Result(read_csv(f), f, "none", NoIdx)

\* The mask with != in place of ==.
SelectPos_not_equal(d, key, value) ==
  {p \in 1 .. Len(d.rows) : d.rows[p][key] # value}

\* CSVConnector.get_filtered_dataframe_with_key: the rows whose cell in
\* column key equals value, with their labels.
SelectPos(d, key, value) == {p \in 1 .. Len(d.rows) : d.rows[p][key] = value}

RECURSIVE Take(_, _, _)
Take(s, P, p) ==
  IF p > Len(s) THEN <<>>
  ELSE IF p \in P THEN <<s[p]>> \o Take(s, P, p + 1)
  ELSE Take(s, P, p + 1)

get_filtered_dataframe_with_key(d, key, value) ==
  [columns |-> d.columns,
   index   |-> Take(d.index, SelectPos(d, key, value), 1),
   rows    |-> Take(d.rows, SelectPos(d, key, value), 1)]

\* register that only looks for missing keys: an extra key is accepted.
register_missing_only(d, f, key_and_values) ==
  IF ~(Range(d.columns) \subseteq DOMAIN key_and_values)
  THEN Result(d, f, "ValueError", NoIdx)
  ELSE Result(concat(d, key_and_values),
              write_csv(concat(d, key_and_values)), "none", NoIdx)

\* CSVConnector.register
register(d, f, key_and_values) ==
  IF DOMAIN key_and_values # Range(d.columns)
  THEN Result(d, f, "ValueError", NoIdx)
  ELSE LET new == concat(d, key_and_values)
       IN  Result(new, write_csv(new), "none", NoIdx)

\* The loop with drop(idx, errors="ignore"): a label that is not there is
\* passed over.
RECURSIVE drop_each_ignore_missing(_, _)
drop_each_ignore_missing(d, row_index) ==
  IF row_index = <<>> THEN [df |-> d, err |-> FALSE, idx |-> NoIdx]
  ELSE IF Head(row_index) \notin Range(d.index)
       THEN drop_each_ignore_missing(d, Tail(row_index))
       ELSE drop_each_ignore_missing(drop(d, Head(row_index)), Tail(row_index))

\* The loop of CSVConnector.delete: the labels are dropped one by one from
\* the frame itself; the first label that is not there raises KeyError.
RECURSIVE drop_each(_, _)
drop_each(d, row_index) ==
  IF row_index = <<>> THEN [df |-> d, err |-> FALSE, idx |-> NoIdx]
  ELSE IF Head(row_index) \notin Range(d.index)
       THEN [df |-> d, err |-> TRUE, idx |-> <<Head(row_index)>>]
       ELSE drop_each(drop(d, Head(row_index)), Tail(row_index))

\* delete without its except clause: the KeyError of drop reaches the caller.
delete_no_except(d, f, row_index) ==
  LET l == drop_each(d, row_index)
  IN  IF l.err
      THEN Result(l.df, f, "KeyError", l.idx)
      ELSE Result(reset_index(l.df), write_csv(reset_index(l.df)), "none", NoIdx)

\* CSVConnector.delete
delete(d, f, row_index) ==
  LET l   == drop_each(d, row_index)
      new == reset_index(l.df)
  IN  IF l.err
      THEN Result(l.df, f, "IndexError", l.idx)
      ELSE Result(new, write_csv(new), "none", NoIdx)

AddColumn(d, row_index, key, value) ==
  [columns |-> Append(d.columns, key),
   index   |-> d.index,
   rows    |-> [r \in 1 .. Len(d.rows) |->
                 [c \in Range(d.columns) \cup {key} |->
                    IF c # key THEN d.rows[r][c]
                    ELSE IF d.index[r] = row_index THEN value ELSE NaN]]]

\* update without the write: the cell is set in memory only.
update_no_write(d, f, row_index, key, value) ==
  IF Len(d.index) = 0
  THEN Result(d, f, "ValueError", NoIdx)
  ELSE IF ~(Min(Range(d.index)) <= row_index /\ row_index <= Max(Range(d.index)))
  THEN Result(d, f, "IndexError", <<row_index>>)
  ELSE IF key \notin Range(d.columns)
  THEN Result(d, f, "KeyError", NoIdx)
  ELSE Result(loc_set(d, row_index, key, value), f, "none", NoIdx)

\* update that checks the key before it checks for an empty table.
update_key_first(d, f, row_index, key, value) ==
  IF key \notin Range(d.columns)
  THEN Result(d, f, "KeyError", NoIdx)
  ELSE IF Len(d.index) = 0
  THEN Result(d, f, "ValueError", NoIdx)
  ELSE IF ~(Min(Range(d.index)) <= row_index /\ row_index <= Max(Range(d.index)))
  THEN Result(d, f, "IndexError", <<row_index>>)
  ELSE Result(loc_set(d, row_index, key, value),
              write_csv(loc_set(d, row_index, key, value)), "none", NoIdx)

\* update without the key check: df.loc with an unknown key adds the column.
update_no_key_check(d, f, row_index, key, value) ==
  IF Len(d.index) = 0
  THEN Result(d, f, "ValueError", NoIdx)
  ELSE IF ~(Min(Range(d.index)) <= row_index /\ row_index <= Max(Range(d.index)))
  THEN Result(d, f, "IndexError", <<row_index>>)
  ELSE IF key \notin Range(d.columns)
  THEN Result(AddColumn(d, row_index, key, value),
              write_csv(AddColumn(d, row_index, key, value)), "none", NoIdx)
  ELSE Result(loc_set(d, row_index, key, value),
              write_csv(loc_set(d, row_index, key, value)), "none", NoIdx)

\* CSVConnector.update
update(d, f, row_index, key, value) ==
  IF Len(d.index) = 0
  THEN Result(d, f, "ValueError", NoIdx)
  ELSE IF ~(Min(Range(d.index)) <= row_index /\ row_index <= Max(Range(d.index)))
  THEN Result(d, f, "IndexError", <<row_index>>)
  ELSE IF key \notin Range(d.columns)
  THEN Result(d, f, "KeyError", NoIdx)
  ELSE LET new == loc_set(d, row_index, key, value)
       IN  Result(new, write_csv(new), "none", NoIdx)

(* ------------------------- the state machine -------------------------- *)

NoKv == [c \in {} |-> NaN]

Call(op, kv, ri, key, value) ==
  [op |-> op, kv |-> kv, row_index |-> ri, key |-> key, value |-> value,
   initial_keys |-> <<>>]

\* Files that may be at the path before the first connector is built.
InitialFiles ==
  {NoFile,
   [exists |-> TRUE, header |-> <<"a", "b">>, lines |-> <<>>],
   [exists |-> TRUE, header |-> <<"a", "b">>, lines |-> << <<"1", "x">> >>]}

KeySets == {{"a", "b"}, {"a"}, {"a", "b", "c"}, {"a", "c"}}

FieldMappings ==
  UNION {{kv \in [ks -> {Num1, StrX}] : \A k \in ks : kv[k] \in InputValues(k)} :
           ks \in KeySets}

RECURSIVE SeqsUpTo(_, _)
SeqsUpTo(S, n) ==
  IF n = 0 THEN {<<>>}
  ELSE SeqsUpTo(S, n - 1) \cup
       {Append(s, x) : s \in {t \in SeqsUpTo(S, n - 1) : Len(t) = n - 1}, x \in S}

\* The argument lists a caller passes to delete.
DeleteArgLists == SeqsUpTo(RowLabels, MaxDeleteArgs)

NoCall == Call("none", NoKv, <<>>, "", NaN)

NoExc == [name |-> "none", idx |-> NoIdx]

NoOld == [df |-> EmptyFrame(<<>>), csv |-> NoFile]

Init ==
  /\ csv \in InitialFiles
  /\ df = EmptyFrame(<<>>)
  /\ constructed = FALSE
  /\ call = NoCall
  /\ exc = NoExc
  /\ old = NoOld
  /\ ret = NoRet
  /\ schema = <<>>
  /\ track = FALSE
  /\ applied = EmptyFrame(<<>>)

\* The history after a call: r is what the call did to self.__df, h what the
\* same call does to the table of the history.
Applied(r, h) ==
  IF track /\ r.exc = "none" /\ h.exc = "none" THEN h.df ELSE applied

Apply(r) ==
  /\ old' = [df |-> df, csv |-> csv]
  /\ df' = r.df
  /\ csv' = r.csv
  /\ exc' = [name |-> r.exc, idx |-> r.idx]

\* The caller is between two calls: the previous call has returned or
\* raised and its outcome has been taken.
Idle == call.op = "none"

\* CSVConnector(csv_file, initial_keys): the connector is built on the path;
\* a constructor that raises builds nothing and may be called again.
Open ==
  /\ Idle
  /\ ~constructed
  /\ \E initial_keys \in InitialKeyLists :
       LET r == init(csv, initial_keys)
       IN  /\ call' = [Call("init", NoKv, <<>>, "", NaN)
                         EXCEPT !.initial_keys = initial_keys]
           /\ Apply(r)
           /\ constructed' = (r.exc = "none")
           /\ schema' = r.df.columns
           /\ applied' = Applied(r, r)
  /\ ret' = NoRet
  /\ UNCHANGED track

Read ==
  /\ Idle
  /\ constructed
  /\ call' = Call("read", NoKv, <<>>, "", NaN)
  /\ exc' = NoExc
  /\ old' = [df |-> df, csv |-> csv]
  /\ ret' = read(df)
  /\ UNCHANGED <<df, csv, constructed, schema, track, applied>>

Filter ==
  /\ Idle
  /\ constructed
  /\ \E key \in Keys : \E value \in InputValues(key) :
       /\ call' = Call("filter", NoKv, <<>>, key, value)
       /\ exc' = [name |-> IF key \in Range(df.columns) THEN "none" ELSE "KeyError",
                  idx |-> NoIdx]
       /\ ret' = IF key \in Range(df.columns)
                 THEN copy(get_filtered_dataframe_with_key(df, key, value))
                 ELSE NoRet
  /\ old' = [df |-> df, csv |-> csv]
  /\ UNCHANGED <<df, csv, constructed, schema, track, applied>>

Register ==
  /\ Idle
  /\ constructed
  /\ Len(df.rows) < MaxRows
  /\ Len(applied.rows) < MaxRows
  /\ \E kv \in FieldMappings :
       LET r == register(df, csv, kv)
       IN  /\ call' = Call("register", kv, <<>>, "", NaN)
           /\ Apply(r)
           /\ ret' = Returns(r)
           /\ applied' = Applied(r, register(applied, csv, kv))
  /\ UNCHANGED <<constructed, schema, track>>

Delete ==
  /\ Idle
  /\ constructed
  /\ \E ri \in DeleteArgLists :
       LET r == delete(df, csv, ri)
       IN  /\ call' = Call("delete", NoKv, ri, "", NaN)
           /\ Apply(r)
           /\ ret' = Returns(r)
           /\ applied' = Applied(r, delete(applied, csv, ri))
  /\ UNCHANGED <<constructed, schema, track>>

Update ==
  /\ Idle
  /\ constructed
  /\ \E ri \in RowLabels, key \in Keys : \E value \in InputValues(key) :
       LET r == update(df, csv, ri, key, value)
       IN  /\ call' = Call("update", NoKv, <<ri>>, key, value)
           /\ Apply(r)
           /\ ret' = Returns(r)
           /\ applied' = Applied(r, update(applied, csv, ri, key, value))
  /\ UNCHANGED <<constructed, schema, track>>

\* The caller changes the DataFrame a method handed out (it drops the
\* first row, in place).  A frame shared with self.__df changes with it.
MutateReturned ==
  /\ call.op \in {"read", "filter", "register", "delete", "update"}
  /\ exc.name = "none"
  /\ Len(ret.frame.rows) > 0
  /\ call' = Call("mutate", NoKv, <<>>, "", NaN)
  /\ exc' = NoExc
  /\ old' = [df |-> df, csv |-> csv]
  /\ ret' = [ret EXCEPT !.frame = drop(ret.frame, ret.frame.index[1])]
  /\ df' = IF ret.shared THEN drop(ret.frame, ret.frame.index[1]) ELSE df
  /\ UNCHANGED <<csv, constructed, schema, track, applied>>

\* The call returns its DataFrame or raises to the caller, who goes on.
Return ==
  /\ ~Idle
  /\ call' = NoCall
  /\ exc' = NoExc
  /\ old' = NoOld
  /\ ret' = NoRet
  /\ UNCHANGED <<df, csv, constructed, schema, track, applied>>

Next ==
  \/ Open \/ Read \/ Filter \/ Register \/ Delete \/ Update
  \/ MutateReturned \/ Return

Spec == Init /\ [][Next]_vars

\* The same connector, the history variable applied kept along.
InitHistory ==
  /\ csv \in InitialFiles
  /\ df = EmptyFrame(<<>>)
  /\ constructed = FALSE
  /\ call = NoCall
  /\ exc = NoExc
  /\ old = NoOld
  /\ ret = NoRet
  /\ schema = <<>>
  /\ track = TRUE
  /\ applied = EmptyFrame(<<>>)

SpecHistory == InitHistory /\ [][Next]_vars

(* ------------------------------ claims -------------------------------- *)

Returned(op) == call.op = op /\ exc.name = "none"

Raised(op, e) == call.op = op /\ exc.name = e

RangeIndex(n) == [r \in 1 .. n |-> r - 1]

\* The position of the row that carried label i when the call was entered.
OldPos(i) == CHOOSE p \in 1 .. Len(old.df.index) : old.df.index[p] = i

Unchanged == df = old.df /\ csv = old.csv

\* C1: after register, delete or update has returned, the file holds the
\* table in memory: the same column list and the same rows in the same
\* order.
C1_WriteThrough ==
  (call.op \in {"register", "delete", "update"} /\ exc.name = "none") =>
    /\ csv.exists
    /\ csv.header = df.columns
    /\ Len(csv.lines) = Len(df.rows)
    /\ \A r \in 1 .. Len(df.rows) : \A j \in 1 .. Len(df.columns) :
         csv.lines[r][j] = df.rows[r][df.columns[j]].tx

C1_Witness ==
  /\ Returned("update")
  /\ Len(df.rows) = 2
  /\ df # old.df
  /\ old.csv # to_csv(old.df)

\* C2: once an operation has completed, returned or raised, the row labels
\* of the table in memory are 0 .. row_count-1 in order.
C2_ContiguousIndex ==
  constructed => df.index = RangeIndex(Len(df.rows))

\* C3: a delete that raises IndexError removes no row and leaves the file
\* as it was.
C3_DeleteFailsAsAWhole ==
  Raised("delete", "IndexError") => Unchanged

\* C4: register with a mapping whose key set is the column set returns; the
\* table is the previous one with the mapping appended as the last row,
\* labelled with the previous row count; the earlier rows and the column
\* order are as before.
C4_InsertAppends ==
  (call.op = "register" /\ DOMAIN call.kv = Range(old.df.columns)) =>
    /\ exc.name = "none"
    /\ df.columns = old.df.columns
    /\ Len(df.rows) = Len(old.df.rows) + 1
    /\ Len(df.index) = Len(df.rows)
    /\ \A r \in 1 .. Len(old.df.rows) : df.rows[r] = old.df.rows[r]
    /\ \A c \in Range(df.columns) : df.rows[Len(df.rows)][c] = call.kv[c]
    /\ DOMAIN df.rows[Len(df.rows)] = DOMAIN call.kv
    /\ df.index[Len(df.rows)] = Len(old.df.rows)

C4_Witness ==
  /\ Returned("register")
  /\ Len(df.rows) = 3
  /\ old.df.index # RangeIndex(2)

\* C5: register with a mapping whose key set is not the column set raises
\* ValueError; the table and the file are as before.
C5_InsertSchemaMismatch ==
  (call.op = "register" /\ DOMAIN call.kv # Range(old.df.columns)) =>
    exc.name = "ValueError" /\ Unchanged

C5_Witness ==
  /\ Raised("register", "ValueError")
  /\ "c" \in DOMAIN call.kv
  /\ "b" \in DOMAIN call.kv
  /\ Len(df.rows) = 2

\* C6: delete(i) with i a label of the table removes the row that carried
\* i and no other; the other rows keep their order and are relabelled
\* 0 .. row_count-1.
C6_DeleteOne ==
  (call.op = "delete" /\ Len(call.row_index) = 1
     /\ call.row_index[1] \in Range(old.df.index)) =>
    /\ exc.name = "none"
    /\ Len(df.rows) = Len(old.df.rows) - 1
    /\ \A r \in 1 .. Len(df.rows) :
         df.rows[r] = IF r < OldPos(call.row_index[1])
                      THEN old.df.rows[r] ELSE old.df.rows[r + 1]
    /\ df.index = RangeIndex(Len(df.rows))
    /\ df.columns = old.df.columns

C6_Witness ==
  /\ Returned("delete")
  /\ call.row_index = <<1>>
  /\ Len(old.df.rows) = 3
  /\ df.rows[1] # df.rows[2]

\* The first argument of the delete that is not a label of the table when
\* its turn comes: not a label when the call was entered, or given before.
Offends(p) ==
  \/ call.row_index[p] \notin Range(old.df.index)
  \/ \E q \in 1 .. p - 1 : call.row_index[q] = call.row_index[p]

FirstOffending ==
  CHOOSE p \in 1 .. Len(call.row_index) :
    Offends(p) /\ \A q \in 1 .. p - 1 : ~Offends(q)

\* C7: delete with an argument, at any position, that is not a label of
\* the table raises IndexError naming the offending index and does not
\* write the file.
C7_DeleteOutOfRange ==
  (call.op = "delete"
     /\ \E p \in 1 .. Len(call.row_index) :
          call.row_index[p] \notin Range(old.df.index)) =>
    /\ exc.name = "IndexError"
    /\ exc.idx = <<call.row_index[FirstOffending]>>
    /\ csv = old.csv

C7_Witness ==
  /\ Raised("delete", "IndexError")
  /\ Len(call.row_index) = 2
  /\ call.row_index[1] \in Range(old.df.index)
  /\ call.row_index[2] = -1
  /\ exc.idx = <<-1>>

\* C8: update(i, k, v) with i a label and k a column sets the cell (i, k)
\* to v and nothing else: the labels, the row order and every other cell
\* are as before, the file is written to match, and filter(k, v) then has
\* row i.
C8_UpdateOneCell ==
  (call.op = "update" /\ call.row_index[1] \in Range(old.df.index)
     /\ call.key \in Range(old.df.columns)) =>
    /\ exc.name = "none"
    /\ df.columns = old.df.columns
    /\ df.index = old.df.index
    /\ Len(df.rows) = Len(old.df.rows)
    /\ \A r \in 1 .. Len(df.rows) : \A c \in Range(df.columns) :
         df.rows[r][c] = IF r = OldPos(call.row_index[1]) /\ c = call.key
                         THEN call.value ELSE old.df.rows[r][c]
    /\ csv = to_csv(df)
    /\ call.row_index[1] \in
         Range(get_filtered_dataframe_with_key(df, call.key, call.value).index)

C8_Witness ==
  /\ Returned("update")
  /\ Len(df.rows) = 2
  /\ df.index = <<1, 2>>
  /\ call.row_index = <<1>>
  /\ df.rows[1] # old.df.rows[1]

\* C9: update on a table without rows raises ValueError whatever the row
\* index and the key are; the table and the file are as before.
C9_UpdateEmptyTable ==
  (call.op = "update" /\ Len(old.df.rows) = 0) =>
    exc.name = "ValueError" /\ Unchanged

C9_Witness ==
  /\ Raised("update", "ValueError")
  /\ call.key = "c"
  /\ Len(df.rows) = 0

\* C10: update on a table with rows, with a label of the table and a key
\* that is no column, raises KeyError; the table and the file are as
\* before.
C10_UpdateUnknownKey ==
  (call.op = "update" /\ call.row_index[1] \in Range(old.df.index)
     /\ call.key \notin Range(old.df.columns)) =>
    exc.name = "KeyError" /\ Unchanged

C10_Witness ==
  /\ Raised("update", "KeyError")
  /\ call.row_index[1] \in Range(df.index)
  /\ Len(df.rows) = 2

\* C11: in every state the columns of the table are the ones it had when
\* the connector was built, and every row has one cell for each of them and
\* no other: no call, returning or raising, adds or removes a column or
\* leaves a row with a missing or an extra key.
C11_SchemaFixed ==
  constructed =>
    /\ df.columns = schema
    /\ Len(df.index) = Len(df.rows)
    /\ \A r \in 1 .. Len(df.rows) : DOMAIN df.rows[r] = Range(schema)

C11_Witness ==
  /\ Returned("update")
  /\ Len(df.rows) = Len(old.df.rows) + 1
  /\ \E c \in Range(schema) : df.rows[Len(df.rows)][c] = NaN

\* C12: read and filter change neither the table in memory nor the file,
\* and a change the caller makes to a DataFrame handed out by read, filter,
\* register, delete or update changes neither: a later read gives the same
\* table.
C12_CopiesHandedOut ==
  /\ call.op \in {"read", "filter"} => Unchanged
  /\ call.op = "mutate" => Unchanged /\ read(df).frame = old.df

C12_Witness ==
  /\ call.op = "mutate"
  /\ Len(df.rows) = 2
  /\ Len(ret.frame.rows) = 1
  /\ ret.frame.columns = df.columns

\* C13: building a connector on a path without a file raises
\* FileNotFoundError and creates no file when initial_keys is empty or
\* absent; with initial_keys it creates a file that holds their header line
\* only and gives an empty table with those columns.  On a path with a file
\* it loads the file, whatever initial_keys is, and leaves the file as it
\* was.
C13_Open ==
  call.op = "init" =>
    IF ~old.csv.exists
    THEN IF call.initial_keys = <<>>
         THEN exc.name = "FileNotFoundError" /\ ~csv.exists /\ ~constructed
         ELSE /\ exc.name = "none" /\ constructed
              /\ csv.exists /\ csv.header = call.initial_keys /\ csv.lines = <<>>
              /\ df.columns = call.initial_keys /\ df.rows = <<>>
    ELSE /\ exc.name = "none" /\ constructed
         /\ csv = old.csv
         /\ df.columns = old.csv.header
         /\ Len(df.rows) = Len(old.csv.lines)
         /\ \A r \in 1 .. Len(df.rows) : \A j \in 1 .. Len(df.columns) :
              df.rows[r][df.columns[j]].tx = old.csv.lines[r][j]

C13_Witness ==
  /\ call.op = "init"
  /\ old.csv.exists
  /\ call.initial_keys = <<"c">>
  /\ Len(df.rows) = 1

C13_WitnessCreated ==
  /\ call.op = "init"
  /\ ~old.csv.exists
  /\ csv.exists

\* C14: after register or update has written the table, a connector built
\* anew on the file holds the same columns and, cell by cell, the same
\* values of the same types as the table in memory.
C14_RoundTrip ==
  (call.op \in {"register", "update"} /\ exc.name = "none") =>
    /\ init(csv, <<>>).exc = "none"
    /\ init(csv, <<>>).df.columns = df.columns
    /\ init(csv, <<>>).df.rows = df.rows

\* C15: in every reachable state the range check of update amounts to
\* containment: update on a table with rows, with a row index that is no
\* label of the table (and a key that is a column), raises IndexError and
\* adds no row.
C15_RangeCheckIsContainment ==
  (call.op = "update" /\ Len(old.df.rows) > 0
     /\ call.row_index[1] \notin Range(old.df.index)
     /\ call.key \in Range(old.df.columns)) =>
    /\ exc.name = "IndexError"
    /\ Len(df.rows) = Len(old.df.rows)

\* The positions, in the table the call was entered with, of the rows whose
\* label is not among the arguments of the delete, and the r-th of them.
Survivors ==
  {p \in 1 .. Len(old.df.index) : old.df.index[p] \notin Range(call.row_index)}

NthSurvivor(r) ==
  CHOOSE p \in Survivors : Cardinality({q \in Survivors : q < p}) = r - 1

C17_FileReflectsReturnedCalls ==
  constructed => csv = to_csv(applied)

\* The positions of the rows of the table whose cell in the column of the
\* filter equals its value, and the r-th of them.
Matches == {p \in 1 .. Len(df.rows) : df.rows[p][call.key] = call.value}

NthMatch(r) ==
  CHOOSE p \in Matches : Cardinality({q \in Matches : q < p}) = r - 1

\* C18: filter(key, value) hands out the rows of the table whose cell in
\* column key equals value, all of them and no other, in table order; with
\* a key that is no column it raises KeyError; either way the table and the
\* file are as before.
C18_Filter ==
  call.op = "filter" =>
    /\ Unchanged
    /\ IF call.key \in Range(df.columns)
       THEN /\ exc.name = "none"
            /\ ret.frame.columns = df.columns
            /\ Len(ret.frame.rows) = Cardinality(Matches)
            /\ Len(ret.frame.index) = Cardinality(Matches)
            /\ \A r \in 1 .. Cardinality(Matches) :
                 /\ ret.frame.rows[r] = df.rows[NthMatch(r)]
                 /\ ret.frame.index[r] = df.index[NthMatch(r)]
       ELSE exc.name = "KeyError"

C18_Witness ==
  /\ Returned("filter")
  /\ Len(df.rows) = 3
  /\ ret.frame.index = <<0, 2>>

C18_WitnessKeyError ==
  /\ Raised("filter", "KeyError")
  /\ Len(df.rows) = 2

\* C19: delete(i, i) with i a label of the table raises IndexError at the
\* second i, naming i: the row labelled i is gone from the table in memory
\* by then; the call does not write the file.
C19_DeleteSameIndexTwice ==
  (call.op = "delete" /\ Len(call.row_index) = 2
     /\ call.row_index[1] = call.row_index[2]
     /\ call.row_index[1] \in Range(old.df.index)) =>
    /\ exc.name = "IndexError"
    /\ exc.idx = <<call.row_index[2]>>
    /\ call.row_index[1] \notin Range(df.index)
    /\ Len(df.rows) = Len(old.df.rows) - 1
    /\ csv = old.csv

C19_Witness ==
  /\ Raised("delete", "IndexError")
  /\ call.row_index = <<1, 1>>
  /\ Len(old.df.rows) = 3
  /\ csv = to_csv(old.df)

====
